---- MODULE Spec2Model ----
(***************************************************************************)
(* A model of gccaps/gated_conv.py: the GatedConv layer (a Conv2D subclass *)
(* that requests 2*n_filters filters and gates one half of the channels    *)
(* with the sigmoid of the other half) and the block() helper that chains  *)
(* two gated convolutions with batch normalization, dropout and pooling.   *)
(*                                                                         *)
(* Shapes are tuples of integers.  In the layer scenario a tensor is a     *)
(* record [shape, val] with val a function from 1-based index tuples to    *)
(* numbers; gate factors are fixed-point numbers in units of 1/SigScale.   *)
(* In the block scenario a tensor is a record [shape, term], the term      *)
(* naming the chain of layer applications that produced it.                *)
(***************************************************************************)
EXTENDS Integers, Sequences, FiniteSets, TLC

VARIABLES
    lpc,        \* position in the layer scenario
    args,       \* keyword arguments the layer is constructed with
    inShape,    \* shape of the input the layer is applied to
    layer,      \* the constructed GatedConv object, or None
    lerr,       \* the exception that left the layer scenario, or None
    reported,   \* result of compute_output_shape
    convOut,    \* result of the parent class's call (the 2c-channel tensor)
    callOut,    \* result of GatedConv.call
    config,     \* result of get_config
    rebuilt,    \* GatedConv(**config)
    config2,    \* rebuilt.get_config()
    pc,         \* next statement of block(), "done" or "raised"
    params,     \* the arguments of block(): n_filters, pool_size, dropout_rate
    training,   \* learning phase the graph is run in
    x,          \* the local variable x of block()
    log,        \* the layer applications block() has performed, in order
    nextId,     \* number of layer instances created so far
    fault,      \* the exception a primitive raised inside block(), or None
    raised,     \* the exception that left block(), or None
    result      \* the value block() returned, or None

lvars == <<lpc, args, inShape, layer, lerr, reported, convOut, callOut,
           config, rebuilt, config2>>
bvars == <<pc, params, training, x, log, nextId, fault, raised, result>>
vars == <<lpc, args, inShape, layer, lerr, reported, convOut, callOut,
          config, rebuilt, config2,
          pc, params, training, x, log, nextId, fault, raised, result>>

None == [none |-> TRUE]

\* ---------------------------------------------------------------- bounds
MaxFilters == 2
MaxKernel == 2
MaxDim == 3
MaxSeed == 2
MaxBlockDim == 8
MaxBlockFilters == 4
MaxPoolSize == 2

\* ------------------------------------------------------------- constants
DefaultNFilters == 64
SigScale == 1000

Min(a, b) == IF a < b THEN a ELSE b
Max(a, b) == IF a > b THEN a ELSE b

\* ------------------------------------------------ keras.layers.Conv2D
Paddings == {"valid", "same"}
DataFormats == {"channels_last", "channels_first"}

Exc(type, origin) == [exc |-> type, origin |-> origin]
IsExc(v) == "exc" \in DOMAIN v

\* Conv2D.__init__(filters, kernel_size, strides, padding, **kwargs), reached
\* through super().__init__: kwargs may carry data_format and use_bias; a
\* second 'filters' keyword is a TypeError raised at the call itself.
Conv2DInit(filters, kernel_size, strides, padding, kwargs) ==
    IF "filters" \in DOMAIN kwargs
    THEN Exc("TypeError", "Conv2D.__init__")
    ELSE IF DOMAIN kwargs \ {"data_format", "use_bias"} # {}
    THEN Exc("TypeError", "Layer.__init__")
    ELSE IF padding \notin Paddings
    THEN Exc("ValueError", "Conv2D.__init__")
    ELSE [filters |-> filters,
          kernel_size |-> kernel_size,
          strides |-> strides,
          padding |-> padding,
          data_format |-> IF "data_format" \in DOMAIN kwargs
                          THEN kwargs["data_format"] ELSE "channels_last",
          use_bias |-> IF "use_bias" \in DOMAIN kwargs
                       THEN kwargs["use_bias"] ELSE TRUE]

\* conv_utils.conv_output_length, as used by Conv2D.compute_output_shape
ConvOutputLength(input_length, filter_size, padding, stride) ==
    LET output_length == IF padding = "same" THEN input_length
                         ELSE input_length - filter_size + 1
    IN (output_length + stride - 1) \div stride

\* super().compute_output_shape(input_shape)
Conv2DComputeOutputShape(self, input_shape) ==
    IF self.data_format = "channels_last"
    THEN <<input_shape[1],
           ConvOutputLength(input_shape[2], self.kernel_size[1], self.padding, self.strides[1]),
           ConvOutputLength(input_shape[3], self.kernel_size[2], self.padding, self.strides[2]),
           self.filters>>
    ELSE <<input_shape[1],
           self.filters,
           ConvOutputLength(input_shape[3], self.kernel_size[1], self.padding, self.strides[1]),
           ConvOutputLength(input_shape[4], self.kernel_size[2], self.padding, self.strides[2])>>

\* super().call(inputs) succeeds on a 4-D input whose output is not empty
Conv2DCallError(self, input_shape) ==
    IF Len(input_shape) # 4
    THEN Exc("ValueError", "Conv2D.call")
    ELSE IF \E i \in 1..4 : Conv2DComputeOutputShape(self, input_shape)[i] < 1
    THEN Exc("ValueError", "Conv2D.call")
    ELSE None

\* super().get_config()
Conv2DGetConfig(self) ==
    [filters |-> self.filters,
     kernel_size |-> self.kernel_size,
     strides |-> self.strides,
     padding |-> self.padding,
     data_format |-> self.data_format,
     use_bias |-> self.use_bias]

\* ------------------------------------------------------------ GatedConv
Without(f, keys) == [k \in DOMAIN f \ keys |-> f[k]]
Get(kw, key, default) == IF key \in DOMAIN kw THEN kw[key] ELSE default

\* GatedConv.__init__(n_filters=64, kernel_size=(3, 3), strides=(1, 1),
\*                    padding='valid', **kwargs)
GatedConvInit(kw) ==
    LET n_filters == Get(kw, "n_filters", DefaultNFilters)
        base == Conv2DInit(n_filters * 2,
                           Get(kw, "kernel_size", <<3, 3>>),
                           Get(kw, "strides", <<1, 1>>),
                           Get(kw, "padding", "valid"),
                           Without(kw, {"n_filters", "kernel_size", "strides", "padding"}))
    IN IF IsExc(base) THEN base
       ELSE [n_filters |-> n_filters] @@ base

\* compute_output_shape without the override: the convolution's own shape
GatedConvComputeOutputShape_Undivided(self, input_shape) ==
    Conv2DComputeOutputShape(self, input_shape)

\* GatedConv.compute_output_shape
GatedConvComputeOutputShape(self, input_shape) ==
    LET output_shape == Conv2DComputeOutputShape(self, input_shape)
    IN SubSeq(output_shape, 1, 3) \o <<self.n_filters>>

\* get_config that leaves the parent's 'filters' entry in place
GatedConvGetConfig_KeepsFilters(self) ==
    [n_filters |-> self.n_filters] @@ Conv2DGetConfig(self)

\* get_config that renames 'filters' to 'n_filters' without halving it
GatedConvGetConfig_Doubled(self) ==
    Without([n_filters |-> self.filters] @@ Conv2DGetConfig(self), {"filters"})

\* GatedConv.get_config
GatedConvGetConfig(self) ==
    LET base == Conv2DGetConfig(self)
        withN == [n_filters |-> self.n_filters] @@ base
    IN Without(withN, {"filters"})

\* ------------------------------------------------------------- tensors
NoShape == <<>>
Indices(shape) == (1..shape[1]) \X (1..shape[2]) \X (1..shape[3]) \X (1..shape[4])

\* The values a convolution output may hold: small numbers, and numbers far
\* enough from zero that the float32 sigmoid rounds to exactly 0.0 or 1.0.
ValueOf == <<-200, -1, 0, 1, 200>>
ConvValue(s1, s2, i) ==
    ValueOf[((s1 + i[4] * s2 + i[2] + i[3]) % Len(ValueOf)) + 1]

\* the tensor super().call(inputs) returns, its values picked by two seeds
Conv2DCall(self, input_shape, s1, s2) ==
    LET failure == Conv2DCallError(self, input_shape)
    IN IF failure # None THEN failure
       ELSE LET shape == Conv2DComputeOutputShape(self, input_shape)
            IN [shape |-> shape,
                val |-> [i \in Indices(shape) |-> ConvValue(s1, s2, i)]]

\* output[:, :, :, :n]
SliceShapeTo(shape, n) == SubSeq(shape, 1, 3) \o <<Min(n, shape[4])>>
SliceTo(t, n) ==
    LET shape == SliceShapeTo(t.shape, n)
    IN [shape |-> shape, val |-> [i \in Indices(shape) |-> t.val[i]]]

\* output[:, :, :, n:]
SliceShapeFrom(shape, n) == SubSeq(shape, 1, 3) \o <<Max(shape[4] - n, 0)>>
SliceFrom(t, n) ==
    LET shape == SliceShapeFrom(t.shape, n)
    IN [shape |-> shape,
        val |-> [i \in Indices(shape) |-> t.val[<<i[1], i[2], i[3], n + i[4]>>]]]

\* Activation('linear'): the identity
Linear(v) == v
ActivationLinear(t) ==
    [shape |-> t.shape, val |-> [i \in Indices(t.shape) |-> Linear(t.val[i])]]

\* Activation('tanh') in place of the sigmoid
Sigmoid_Tanh(v) ==
    CASE v <= -10 -> -SigScale
      [] v = -1 -> -762
      [] v = 0 -> 0
      [] v = 1 -> 762
      [] v >= 10 -> SigScale

\* Activation('sigmoid'): 1/(1+exp(-v)) in float32, in units of 1/SigScale,
\* tabulated for the values of ValueOf
Sigmoid(v) ==
    CASE v <= -104 -> 0
      [] v = -1 -> 269
      [] v = 0 -> SigScale \div 2
      [] v = 1 -> 731
      [] v >= 17 -> SigScale
ActivationSigmoid(t) ==
    [shape |-> t.shape, val |-> [i \in Indices(t.shape) |-> Sigmoid(t.val[i])]]

\* Multiply()([a, b]): the merge layer broadcasts an axis of size 1 and
\* rejects any other pair of unequal sizes
Broadcastable(s1, s2) ==
    \A d \in 1..4 : s1[d] = 1 \/ s2[d] = 1 \/ s1[d] = s2[d]
BroadcastDim(a, b) == IF a = 1 THEN b ELSE a
MultiplyShape(s1, s2) ==
    <<BroadcastDim(s1[1], s2[1]), BroadcastDim(s1[2], s2[2]),
      BroadcastDim(s1[3], s2[3]), BroadcastDim(s1[4], s2[4])>>
PickDim(size, k) == IF size = 1 THEN 1 ELSE k
Pick(shape, i) ==
    <<PickDim(shape[1], i[1]), PickDim(shape[2], i[2]),
      PickDim(shape[3], i[3]), PickDim(shape[4], i[4])>>
Multiply(a, b) ==
    IF ~Broadcastable(a.shape, b.shape)
    THEN Exc("ValueError", "Multiply")
    ELSE LET shape == MultiplyShape(a.shape, b.shape)
         IN [shape |-> shape,
             val |-> [i \in Indices(shape) |->
                         a.val[Pick(a.shape, i)] * b.val[Pick(b.shape, i)]]]

\* call with the activations applied to the wrong halves
GatedConvCall_Swapped(self, output) ==
    IF IsExc(output) THEN output
    ELSE Multiply(ActivationSigmoid(SliceTo(output, self.n_filters)),
                  ActivationLinear(SliceFrom(output, self.n_filters)))

\* GatedConv.call, given what super().call(inputs) returned or raised
GatedConvCall(self, output) ==
    IF IsExc(output) THEN output
    ELSE LET n_filters == self.n_filters
             linear == ActivationLinear(SliceTo(output, n_filters))
             sigmoid == ActivationSigmoid(SliceFrom(output, n_filters))
         IN Multiply(linear, sigmoid)

\* ------------------------------------------------- the layer scenario
Kernels == {<<kh, kw>> : kh \in 1..MaxKernel, kw \in 1..MaxKernel}
Strides == {<<1, 1>>, <<2, 2>>}
LayerArgs ==
    [n_filters : 1..MaxFilters, kernel_size : Kernels, strides : Strides,
     padding : Paddings \cup {"full"}, data_format : DataFormats]
    \cup [n_filters : 1..MaxFilters, padding : Paddings]
InputShapes == {<<1, a, b, c>> : a \in 1..MaxDim, b \in 1..MaxDim, c \in 1..2}

BlockIdle ==
    /\ pc = "idle"
    /\ params = None
    /\ training = FALSE
    /\ x = None
    /\ log = <<>>
    /\ nextId = 0
    /\ fault = None
    /\ raised = None
    /\ result = None

LayerInit ==
    /\ lpc = "new"
    /\ args \in LayerArgs
    /\ inShape \in InputShapes
    /\ layer = None
    /\ lerr = None
    /\ reported = NoShape
    /\ convOut = None
    /\ callOut = None
    /\ config = None
    /\ rebuilt = None
    /\ config2 = None
    /\ BlockIdle

\* layer = GatedConv(**args)
Construct ==
    /\ lpc = "new"
    /\ LET made == GatedConvInit(args)
       IN IF IsExc(made)
          THEN /\ lerr' = made
               /\ lpc' = "raised"
               /\ layer' = layer
          ELSE /\ layer' = made
               /\ lpc' = "built"
               /\ lerr' = lerr
    /\ UNCHANGED <<args, inShape, reported, convOut, callOut, config, rebuilt, config2>>
    /\ UNCHANGED bvars

\* config = layer.get_config()
GetConfig ==
    /\ lpc = "built"
    /\ config' = GatedConvGetConfig(layer)
    /\ lpc' = "exported"
    /\ UNCHANGED <<args, inShape, layer, lerr, reported, convOut, callOut, rebuilt, config2>>
    /\ UNCHANGED bvars

\* rebuilt = GatedConv(**config), as Layer.from_config does
FromConfig ==
    /\ lpc = "exported"
    /\ rebuilt' = GatedConvInit(config)
    /\ lpc' = "rebuilt"
    /\ UNCHANGED <<args, inShape, layer, lerr, reported, convOut, callOut, config, config2>>
    /\ UNCHANGED bvars

\* config2 = rebuilt.get_config()
GetConfigAgain ==
    /\ lpc = "rebuilt"
    /\ config2' = IF IsExc(rebuilt) THEN None ELSE GatedConvGetConfig(rebuilt)
    /\ lpc' = "reexported"
    /\ UNCHANGED <<args, inShape, layer, lerr, reported, convOut, callOut, config, rebuilt>>
    /\ UNCHANGED bvars

\* reported = layer.compute_output_shape(inShape)
ComputeOutputShape ==
    /\ lpc = "reexported"
    /\ reported' = GatedConvComputeOutputShape(layer, inShape)
    /\ lpc' = "shaped"
    /\ UNCHANGED <<args, inShape, layer, lerr, convOut, callOut, config, rebuilt, config2>>
    /\ UNCHANGED bvars

\* callOut = layer.call(inputs) for some input of shape inShape
Call ==
    /\ lpc = "shaped"
    /\ \E s1 \in 0..MaxSeed, s2 \in 0..MaxSeed :
          LET output == Conv2DCall(layer, inShape, s1, s2)
              out == GatedConvCall(layer, output)
          IN /\ convOut' = output
             /\ IF IsExc(out)
                THEN lerr' = out /\ callOut' = callOut
                ELSE callOut' = out /\ lerr' = lerr
    /\ lpc' = "called"
    /\ UNCHANGED <<args, inShape, layer, reported, config, rebuilt, config2>>
    /\ UNCHANGED bvars

LayerNext ==
    \/ Construct
    \/ GetConfig
    \/ FromConfig
    \/ GetConfigAgain
    \/ ComputeOutputShape
    \/ Call

SpecLayer == LayerInit /\ [][LayerNext]_vars

\* ------------------------------------------------- the block scenario
\* A symbolic value: the layer application that produced it and its operand.
InputTerm == <<"input", 0, <<>> >>
Applied(kind, id, term) == <<kind, id, term>>

\* GatedConv.call on shapes alone: the split and the product
GatedConvCallShape(self, output_shape) ==
    LET linear == SliceShapeTo(output_shape, self.n_filters)
        sigmoid == SliceShapeFrom(output_shape, self.n_filters)
    IN IF Broadcastable(linear, sigmoid)
       THEN [shape |-> MultiplyShape(linear, sigmoid)]
       ELSE Exc("ValueError", "Multiply")

\* GatedConv(n_filters)(x): the padding argument forgotten
BlockGatedConvArgs_DefaultPadding(n_filters) == [n_filters |-> n_filters]

\* GatedConv(n_filters, padding='same')(x)
BlockGatedConvArgs(n_filters) == [n_filters |-> n_filters, padding |-> "same"]
GatedConvApply(n_filters, id, t) ==
    LET self == GatedConvInit(BlockGatedConvArgs(n_filters))
    IN IF IsExc(self) THEN self
       ELSE IF Conv2DCallError(self, t.shape) # None
       THEN Conv2DCallError(self, t.shape)
       ELSE LET out == GatedConvCallShape(self, Conv2DComputeOutputShape(self, t.shape))
            IN IF IsExc(out) THEN out
               ELSE [shape |-> out.shape, term |-> Applied("GatedConv", id, t.term)]

\* BatchNormalization(axis=-1)(x): same shape, normalized values
BatchNormApply(id, t) ==
    [shape |-> t.shape, term |-> Applied("BatchNormalization", id, t.term)]

\* a dropout that masks in training whatever the rate
DropoutApply_AnyRate(rate, train, id, t) ==
    IF train
    THEN [shape |-> t.shape, term |-> Applied("Dropout", id, t.term)]
    ELSE t

\* Dropout(rate=dropout_rate)(x), the rate in percent: units are dropped
\* only in the training phase and only for 0 < rate < 1; otherwise the
\* layer returns its input
DropoutApply(rate, train, id, t) ==
    IF 0 < rate /\ rate < 100 /\ train
    THEN [shape |-> t.shape, term |-> Applied("Dropout", id, t.term)]
    ELSE t

\* MaxPooling2D(pool_size=pool_size)(x): strides default to the pool size,
\* padding to 'valid'; a window larger than the input is an error
MaxPoolApply(pool_size, id, t) ==
    IF t.shape[2] < pool_size[1] \/ t.shape[3] < pool_size[2]
    THEN Exc("ValueError", "MaxPooling2D")
    ELSE [shape |-> <<t.shape[1],
                      ConvOutputLength(t.shape[2], pool_size[1], "valid", pool_size[1]),
                      ConvOutputLength(t.shape[3], pool_size[2], "valid", pool_size[2]),
                      t.shape[4]>>,
          term |-> Applied("MaxPooling2D", id, t.term)]

\* a block whose second gated convolution is missing
After_OneConv(stmt) ==
    CASE stmt = "conv1" -> "bn1"
      [] stmt = "bn1" -> "drop1"
      [] stmt = "drop1" -> "bn2"
      [] stmt = "conv2" -> "bn2"
      [] stmt = "bn2" -> "drop2"
      [] stmt = "drop2" -> "pool"
      [] stmt = "pool" -> "done"

\* the statement that follows each statement of block()
After(stmt) ==
    CASE stmt = "conv1" -> "bn1"
      [] stmt = "bn1" -> "drop1"
      [] stmt = "drop1" -> "conv2"
      [] stmt = "conv2" -> "bn2"
      [] stmt = "bn2" -> "drop2"
      [] stmt = "drop2" -> "pool"
      [] stmt = "pool" -> "done"

\* a block that catches the exception and raises its own
Propagate_Wrapped(e) ==
    /\ fault' = e
    /\ raised' = Exc("RuntimeError", "block")
    /\ pc' = "raised"
    /\ UNCHANGED <<x, log, result>>

\* an exception raised inside block() leaves it: nothing catches it
Propagate(e) ==
    /\ fault' = e
    /\ raised' = e
    /\ pc' = "raised"
    /\ UNCHANGED <<x, log, result>>

\* one statement of block(): a fresh layer instance is created and applied
\* to x; the framework may also fail on its own (out of memory)
Statement(stmt, kind, conf, out) ==
    /\ pc = stmt
    /\ nextId' = nextId + 1
    /\ \/ IF IsExc(out)
          THEN Propagate(out)
          ELSE /\ log' = Append(log, [layer |-> kind, id |-> nextId', conf |-> conf,
                                      input |-> x, output |-> out])
               /\ pc' = After(stmt)
               /\ IF stmt = "pool"
                  THEN result' = out /\ x' = x
                  ELSE x' = out /\ result' = result
               /\ UNCHANGED <<fault, raised>>
       \/ Propagate(Exc("ResourceExhaustedError", kind))
    /\ UNCHANGED <<params, training>>
    /\ UNCHANGED lvars

GatedConvStatement(stmt) ==
    Statement(stmt, "GatedConv", BlockGatedConvArgs(params.n_filters),
              GatedConvApply(params.n_filters, nextId + 1, x))

BatchNormStatement(stmt) ==
    Statement(stmt, "BatchNormalization", [axis |-> -1], BatchNormApply(nextId + 1, x))

DropoutStatement(stmt) ==
    Statement(stmt, "Dropout", [rate |-> params.dropout_rate],
              DropoutApply(params.dropout_rate, training, nextId + 1, x))

MaxPoolStatement(stmt) ==
    Statement(stmt, "MaxPooling2D", [pool_size |-> params.pool_size],
              MaxPoolApply(params.pool_size, nextId + 1, x))

GatedConv1 == GatedConvStatement("conv1")
BatchNorm1 == BatchNormStatement("bn1")
Dropout1 == DropoutStatement("drop1")
GatedConv2 == GatedConvStatement("conv2")
BatchNorm2 == BatchNormStatement("bn2")
Dropout2 == DropoutStatement("drop2")
MaxPooling == MaxPoolStatement("pool")

BlockInputs ==
    {<<1, h, w, c>> : h \in 1..MaxBlockDim, w \in 1..MaxBlockDim, c \in {1, 3}}
    \cup {<<1, 4, 4>>}
BlockParams ==
    [input : BlockInputs,
     n_filters : 1..MaxBlockFilters,
     pool_size : {<<p, p>> : p \in 1..MaxPoolSize},
     dropout_rate : {0, 20, 50}]

LayerIdle ==
    /\ lpc = "idle"
    /\ args = None
    /\ inShape = NoShape
    /\ layer = None
    /\ lerr = None
    /\ reported = NoShape
    /\ convOut = None
    /\ callOut = None
    /\ config = None
    /\ rebuilt = None
    /\ config2 = None

BlockInit ==
    /\ pc = "conv1"
    /\ params \in BlockParams
    /\ training \in BOOLEAN
    /\ x = [shape |-> params.input, term |-> InputTerm]
    /\ log = <<>>
    /\ nextId = 0
    /\ fault = None
    /\ raised = None
    /\ result = None
    /\ LayerIdle

BlockNext ==
    \/ GatedConv1
    \/ BatchNorm1
    \/ Dropout1
    \/ GatedConv2
    \/ BatchNorm2
    \/ Dropout2
    \/ MaxPooling

SpecBlock == BlockInit /\ [][BlockNext]_vars

\* ------------------------------------------------ claims on the layer
ChannelsLast == layer # None /\ layer.data_format = "channels_last"
ChannelAxis(self) == IF self.data_format = "channels_last" THEN 4 ELSE 2
Returned == callOut # None

\* C1: with the default channels-last layout, a layer built with n_filters = c
\* asks the underlying convolution for 2c filters, and both the shape
\* compute_output_shape reports and the shape of the tensor call produces are
\* the convolution's batch and spatial dimensions followed by exactly c.
C1_OutputChannels ==
    ChannelsLast =>
        LET c == args.n_filters
            conv == Conv2DComputeOutputShape(layer, inShape)
        IN /\ layer.filters = 2 * c
           /\ conv[4] = 2 * c
           /\ reported # NoShape => reported = <<conv[1], conv[2], conv[3], c>>
           /\ Returned => /\ convOut.shape = conv
                          /\ callOut.shape = <<conv[1], conv[2], conv[3], c>>

C1_Witness ==
    /\ ChannelsLast
    /\ Returned
    /\ args.n_filters > 1
    /\ convOut.shape[4] = 2 * args.n_filters
    /\ callOut.shape[4] = args.n_filters
    /\ reported[4] = args.n_filters
    /\ reported[3] < inShape[3]

\* C2: a layer rebuilt from get_config() has the n_filters, kernel size,
\* stride and padding of the original and 2*n_filters underlying filters,
\* and its own get_config() is the same mapping again.
C2_RoundTrip ==
    /\ rebuilt # None =>
          /\ ~IsExc(rebuilt)
          /\ rebuilt.n_filters = args.n_filters
          /\ rebuilt.kernel_size = layer.kernel_size
          /\ rebuilt.strides = layer.strides
          /\ rebuilt.padding = layer.padding
          /\ rebuilt.filters = 2 * args.n_filters
          /\ rebuilt = layer
    /\ lpc \in {"reexported", "shaped", "called"} => config2 = config

C2_Witness ==
    /\ lpc = "reexported"
    /\ config2 = config
    /\ rebuilt.n_filters = 2
    /\ rebuilt.filters = 4
    /\ rebuilt.kernel_size = <<1, 2>>
    /\ rebuilt.strides = <<2, 2>>
    /\ rebuilt.padding = "same"

\* C3: get_config() binds 'n_filters' to the requested count, has no
\* 'filters' key, and carries every other key of the convolution's
\* configuration unchanged (so the doubled count appears nowhere).
C3_ConfigKeys ==
    config # None =>
        LET base == Conv2DGetConfig(layer)
        IN /\ DOMAIN config = (DOMAIN base \ {"filters"}) \cup {"n_filters"}
           /\ "filters" \notin DOMAIN config
           /\ config["n_filters"] = args.n_filters
           /\ config["n_filters"] # base["filters"]
           /\ \A k \in DOMAIN base \ {"filters"} : config[k] = base[k]

C3_Witness ==
    /\ config # None
    /\ config["n_filters"] = 2
    /\ layer.filters = 4
    /\ config["data_format"] = "channels_first"
    /\ config["padding"] = "same"

\* C4: with the channels-last layout, call returns, for every position and
\* every 0 <= k < c, conv[.., k] * sigmoid(conv[.., c + k]) (1-based here:
\* channels 1..c and c+1..2c); the two halves are disjoint and cover all 2c
\* channels of the convolution output.
C4_GatedProduct ==
    (ChannelsLast /\ Returned) =>
        LET c == args.n_filters
            first == 1..c
            second == {c + k : k \in 1..c}
        IN /\ first \cap second = {}
           /\ first \cup second = 1..convOut.shape[4]
           /\ DOMAIN callOut.val = Indices(<<convOut.shape[1], convOut.shape[2], convOut.shape[3], c>>)
           /\ \A i \in DOMAIN callOut.val :
                 callOut.val[i] =
                     Linear(convOut.val[i]) * Sigmoid(convOut.val[<<i[1], i[2], i[3], c + i[4]>>])

C4_Witness ==
    /\ ChannelsLast
    /\ Returned
    /\ args.n_filters = 2
    /\ \E i \in DOMAIN callOut.val :
          /\ i[4] = 2
          /\ convOut.val[i] = -1
          /\ convOut.val[<<i[1], i[2], i[3], 4>>] = 1
          /\ callOut.val[i] = -731

\* C7: every output element lies between 0 and the linear-half value
\* (both in units of 1/SigScale): same sign, no larger in magnitude, and 0
\* when the linear value is 0.
C7_GateRange ==
    (ChannelsLast /\ Returned) =>
        \A i \in DOMAIN callOut.val :
            LET lin == convOut.val[i] * SigScale
                out == callOut.val[i]
            IN /\ lin >= 0 => (0 <= out /\ out <= lin)
               /\ lin <= 0 => (lin <= out /\ out <= 0)

C7_Witness ==
    /\ ChannelsLast
    /\ Returned
    /\ \E i \in DOMAIN callOut.val :
          /\ convOut.val[i] < 0
          /\ callOut.val[i] < 0
          /\ callOut.val[i] > convOut.val[i] * SigScale
    /\ \E i \in DOMAIN callOut.val : convOut.val[i] = 0 /\ callOut.val[i] = 0
    /\ \E i \in DOMAIN callOut.val : convOut.val[i] > 0 /\ callOut.val[i] = 0
    /\ \E i \in DOMAIN callOut.val :
          convOut.val[i] > 0 /\ callOut.val[i] = convOut.val[i] * SigScale

\* C10: for every accepted configuration, data_format included, whenever the
\* underlying convolution produces an output, call returns a tensor of the
\* shape compute_output_shape reports, and that shape is the convolution's
\* output shape with its channel axis, and only it, replaced by n_filters.
C10_ShapeAgreement ==
    (lpc = "called" /\ ~IsExc(convOut)) =>
        /\ Returned
        /\ callOut.shape = reported
        /\ \A d \in 1..4 :
              reported[d] = IF d = ChannelAxis(layer) THEN args.n_filters
                            ELSE convOut.shape[d]

\* ------------------------------------------------ claims on the block
Done == pc = "done"
Order == <<"GatedConv", "BatchNormalization", "Dropout",
           "GatedConv", "BatchNormalization", "Dropout", "MaxPooling2D">>
ConfOf(i) ==
    CASE i \in {1, 4} -> [n_filters |-> params.n_filters, padding |-> "same"]
      [] i \in {2, 5} -> [axis |-> -1]
      [] i \in {3, 6} -> [rate |-> params.dropout_rate]
      [] i = 7 -> [pool_size |-> params.pool_size]

\* C5: block applies gated convolution (n_filters, 'same'), batch
\* normalization over the last axis, dropout(dropout_rate), the same three
\* again, then max pooling(pool_size): in this order, each once, each on the
\* previous step's output, the two gated convolutions being distinct layer
\* instances, and returns the pooling output.
C5_StepOrder ==
    /\ Len(log) <= Len(Order)
    /\ \A i \in 1..Len(log) :
          /\ log[i].layer = Order[i]
          /\ log[i].conf = ConfOf(i)
          /\ log[i].input = IF i = 1 THEN [shape |-> params.input, term |-> InputTerm]
                            ELSE log[i - 1].output
          /\ \A j \in 1..Len(log) : i # j => log[i].id # log[j].id
    /\ Done => /\ Len(log) = Len(Order)
               /\ result = log[Len(Order)].output
    /\ result # None => Done

C5_Witness ==
    /\ Done
    /\ Len(log) = 7
    /\ log[1].id # log[4].id
    /\ log[4].input = log[3].output
    /\ log[3].output # log[3].input
    /\ result = log[7].output

\* C6: whenever block returns with pool_size (2, 2), the result has shape
\* (B, H div 2, W div 2, n_filters) for input (B, H, W, C): every step before
\* the pooling keeps H and W, and input (1, 8, 8, 3) with n_filters = 4 gives
\* (1, 4, 4, 4).
C6_BlockShape ==
    (Done /\ params.pool_size = <<2, 2>>) =>
        LET in == params.input
        IN /\ result.shape = <<in[1], in[2] \div 2, in[3] \div 2, params.n_filters>>
           /\ \A i \in 1..6 : /\ log[i].output.shape[2] = in[2]
                              /\ log[i].output.shape[3] = in[3]
           /\ (in = <<1, 8, 8, 3>> /\ params.n_filters = 4)
                 => result.shape = <<1, 4, 4, 4>>

C6_Witness ==
    /\ Done
    /\ params.pool_size = <<2, 2>>
    /\ params.input = <<1, 8, 8, 3>>
    /\ params.n_filters = 4
    /\ result.shape = <<1, 4, 4, 4>>

\* C8: with dropout_rate = 0 both dropout steps return their input, in
\* training and in inference, so the result is
\* maxpool(batchnorm(gatedconv2(batchnorm(gatedconv1(x))))).
C8_ZeroDropout ==
    (Done /\ params.dropout_rate = 0) =>
        /\ log[3].output = log[3].input
        /\ log[6].output = log[6].input
        /\ result.term =
              Applied("MaxPooling2D", log[7].id,
                Applied("BatchNormalization", log[5].id,
                  Applied("GatedConv", log[4].id,
                    Applied("BatchNormalization", log[2].id,
                      Applied("GatedConv", log[1].id, InputTerm)))))

C8_Witness ==
    /\ Done
    /\ params.dropout_rate = 0
    /\ training
    /\ log[6].output = log[6].input
    /\ result.term[3][3][1] = "GatedConv"

\* C9: an exception raised by a primitive leaves block unchanged: block
\* has raised exactly when a primitive has, with that very exception, no
\* result is returned, and no step runs afterwards.
C9_ErrorsPropagate ==
    /\ [](/\ (fault # None) <=> (pc = "raised")
          /\ raised = fault
          /\ fault # None => result = None)
    /\ [][fault # None => (log' = log /\ x' = x /\ result' = result /\ raised' = raised)]_vars

C9_Witness ==
    /\ pc = "raised"
    /\ raised = Exc("ValueError", "MaxPooling2D")
    /\ fault = raised
    /\ Len(log) = 6
    /\ result = None

====
